---- MODULE Spec2Model ----
(***************************************************************************)
(* A model of the cv2 repository: the version store (db.py), the HTTP      *)
(* service (server.py) and the PDF renderer (build_cv.py).                 *)
(*                                                                         *)
(* Text is a sequence of one-character strings.  A JSON value is a node    *)
(*   [k, s, keys, kids]                                                    *)
(* with k in {"str","arr","obj","true","false","null"}: s is the text of a *)
(* string, kids the elements of an array or the values of an object, keys  *)
(* the object's keys in insertion order (a Python dict keeps it).          *)
(***************************************************************************)
EXTENDS Integers, Sequences, FiniteSets, Bags, TLC

VARIABLES
    tableExists,  \* db: the cv_versions table has been created
    rows,         \* db: the rows of cv_versions, in insertion order
    seq,          \* db: sqlite_sequence.seq of the AUTOINCREMENT key
    clock,        \* the store's clock, in seconds ('now')
    files,        \* the file system: path -> [exists, text]
    booted,       \* server: the module-level start-up code has run
    inflight,     \* server: bag of PUT/generate requests between their two writes
    resp,         \* the result of the last completed call or request
    returned,     \* history: ids returned by save_version, in call order
    saved,        \* history: id -> the document passed to save_version
    nSeeded,      \* history: rows inserted by seed_from_json
    nPut,         \* history: PUT /api/cv requests received
    nGen,         \* history: POST /api/generate requests received
    raced,        \* history: the last write request began while another was in progress
    lastPut,      \* history: the document of the last completed PUT with no write since
    rdata,        \* renderer: the document given to build_pdf
    rpc,          \* renderer: the position of build_pdf
    story,        \* renderer: the flowables built so far
    rerr,         \* renderer: the key of the KeyError raised, or <<>>
    out0,         \* renderer: the file at output_path when build_pdf was called
    outFile,      \* renderer: the file at output_path
    desc,         \* bullets: a role description
    bullets,      \* bullets: the bullet sentences built from it
    bpc           \* bullets: position

vars == <<tableExists, rows, seq, clock, files, booted, inflight, resp, returned,
          saved, nSeeded, nPut, nGen, raced, lastPut, rdata, rpc, story, rerr,
          out0, outFile, desc, bullets, bpc>>

dbVars == <<tableExists, rows, seq, clock, files, booted, inflight, resp, returned,
            saved, nSeeded, nPut, nGen, raced, lastPut>>
renderVars == <<rdata, rpc, story, rerr, out0, outFile>>
bulletVars == <<desc, bullets, bpc>>

-----------------------------------------------------------------------------
(* Bounds of the model *)

MaxCalls == 3
MaxRequests == 2
MaxInflight == 2
MaxClock == 1
MaxDescLen == 5

-----------------------------------------------------------------------------
(* Sequences of characters *)

RECURSIVE Repeat(_, _)
Repeat(s, n) == IF n <= 0 THEN <<>> ELSE s \o Repeat(s, n - 1)

StartsWithAt(t, i, p) ==
    /\ i + Len(p) - 1 <= Len(t)
    /\ \A j \in 1..Len(p) : t[i + j - 1] = p[j]

EndsWith(t, p) == Len(t) >= Len(p) /\ StartsWithAt(t, Len(t) - Len(p) + 1, p)

-----------------------------------------------------------------------------
(* JSON values *)

Str(s) == [k |-> "str", s |-> s, keys |-> <<>>, kids |-> <<>>]
Arr(kids) == [k |-> "arr", s |-> <<>>, keys |-> <<>>, kids |-> kids]
Obj(keys, kids) == [k |-> "obj", s |-> <<>>, keys |-> keys, kids |-> kids]
JTrue == [k |-> "true", s |-> <<>>, keys |-> <<>>, kids |-> <<>>]
JFalse == [k |-> "false", s |-> <<>>, keys |-> <<>>, kids |-> <<>>]
None == [k |-> "null", s |-> <<>>, keys |-> <<>>, kids |-> <<>>]

(* json.dumps of a string with ensure_ascii=False: the quote, the backslash
   and the newline are escaped, every other character is kept. *)
EscapeChar(c) ==
    CASE c = "\"" -> <<"\\", "\"">>
      [] c = "\\" -> <<"\\", "\\">>
      [] c = "\n" -> <<"\\", "n">>
      [] OTHER -> <<c>>

RECURSIVE EscapeChars(_)
EscapeChars(s) == IF s = <<>> THEN <<>> ELSE EscapeChar(Head(s)) \o EscapeChars(Tail(s))

EncodeString(s) == <<"\"">> \o EscapeChars(s) \o <<"\"">>

Newline(indent, level) == <<"\n">> \o Repeat(<<" ">>, indent * level)

(* json.dumps(v, indent=indent): indent < 0 stands for indent=None, the
   compact form with separators ", " and ": ". *)
RECURSIVE Encode(_, _, _)
RECURSIVE EncodeItems(_, _, _, _)
EncodeItems(v, i, indent, level) ==
    IF i > Len(v.kids) THEN <<>>
    ELSE (IF i = 1 THEN <<>>
          ELSE IF indent < 0 THEN <<",", " ">>
          ELSE <<",">> \o Newline(indent, level))
         \o (IF v.k = "obj" THEN EncodeString(v.keys[i]) \o <<":", " ">> ELSE <<>>)
         \o Encode(v.kids[i], indent, level)
         \o EncodeItems(v, i + 1, indent, level)

Encode(v, indent, level) ==
    CASE v.k = "str" -> EncodeString(v.s)
      [] v.k = "true" -> <<"t", "r", "u", "e">>
      [] v.k = "false" -> <<"f", "a", "l", "s", "e">>
      [] v.k = "null" -> <<"n", "u", "l", "l">>
      [] OTHER ->
           LET open == IF v.k = "obj" THEN "{" ELSE "["
               close == IF v.k = "obj" THEN "}" ELSE "]"
           IN  IF v.kids = <<>> THEN <<open, close>>
               ELSE IF indent < 0
                    THEN <<open>> \o EncodeItems(v, 1, indent, level + 1) \o <<close>>
                    ELSE <<open>> \o Newline(indent, level + 1)
                         \o EncodeItems(v, 1, indent, level + 1)
                         \o Newline(indent, level) \o <<close>>

(* json.dumps(data, ensure_ascii=False) *)
Dumps(v) == Encode(v, -1, 0)

(* json.dumps(data, indent=2, ensure_ascii=False) + "\n" *)
DumpsIndent(v) == Encode(v, 2, 0) \o <<"\n">>

(* json.loads: a recursive-descent scanner over text t from position i.
   A result is [ok, val, pos]; ok = FALSE is JSONDecodeError. *)
Whitespace == {" ", "\n", "\t", "\r"}
Fail == [ok |-> FALSE, val |-> None, pos |-> 0]
Ok(v, p) == [ok |-> TRUE, val |-> v, pos |-> p]

RECURSIVE SkipWs(_, _)
SkipWs(t, i) == IF i <= Len(t) /\ t[i] \in Whitespace THEN SkipWs(t, i + 1) ELSE i

(* the scanner after an opening quote *)
RECURSIVE ScanString(_, _, _)
ScanString(t, i, acc) ==
    IF i > Len(t) THEN Fail
    ELSE IF t[i] = "\"" THEN Ok(Str(acc), i + 1)
    ELSE IF t[i] = "\n" THEN Fail
    ELSE IF t[i] = "\\"
         THEN IF i + 1 > Len(t) THEN Fail
              ELSE IF t[i + 1] \in {"\"", "\\", "/"}
                   THEN ScanString(t, i + 2, Append(acc, t[i + 1]))
              ELSE IF t[i + 1] = "n" THEN ScanString(t, i + 2, Append(acc, "\n"))
              ELSE Fail
    ELSE ScanString(t, i + 1, Append(acc, t[i]))

(* dict[key] = value: a repeated key keeps its place and takes the new value *)
ObjPut(o, key, val) ==
    IF \E j \in 1..Len(o.keys) : o.keys[j] = key
    THEN LET j == CHOOSE j \in 1..Len(o.keys) : o.keys[j] = key
         IN  Obj(o.keys, [o.kids EXCEPT ![j] = val])
    ELSE Obj(Append(o.keys, key), Append(o.kids, val))

RECURSIVE ScanValue(_, _)
RECURSIVE ScanMembers(_, _, _)
RECURSIVE ScanElements(_, _, _)

(* at position i a key's opening quote is expected *)
ScanMembers(t, i, o) ==
    IF i > Len(t) \/ t[i] # "\"" THEN Fail
    ELSE LET key == ScanString(t, i + 1, <<>>)
         IN  IF ~key.ok THEN Fail
             ELSE LET c == SkipWs(t, key.pos)
                  IN  IF c > Len(t) \/ t[c] # ":" THEN Fail
                      ELSE LET val == ScanValue(t, SkipWs(t, c + 1))
                           IN  IF ~val.ok THEN Fail
                               ELSE LET e == SkipWs(t, val.pos)
                                        o2 == ObjPut(o, key.val.s, val.val)
                                    IN  IF e > Len(t) THEN Fail
                                        ELSE IF t[e] = "}" THEN Ok(o2, e + 1)
                                        ELSE IF t[e] = ","
                                             THEN ScanMembers(t, SkipWs(t, e + 1), o2)
                                        ELSE Fail

ScanElements(t, i, a) ==
    LET val == ScanValue(t, i)
    IN  IF ~val.ok THEN Fail
        ELSE LET e == SkipWs(t, val.pos)
                 a2 == Arr(Append(a.kids, val.val))
             IN  IF e > Len(t) THEN Fail
                 ELSE IF t[e] = "]" THEN Ok(a2, e + 1)
                 ELSE IF t[e] = "," THEN ScanElements(t, SkipWs(t, e + 1), a2)
                 ELSE Fail

ScanValue(t, i) ==
    IF i > Len(t) THEN Fail
    ELSE IF t[i] = "\"" THEN ScanString(t, i + 1, <<>>)
    ELSE IF t[i] = "{"
         THEN LET j == SkipWs(t, i + 1)
              IN  IF j <= Len(t) /\ t[j] = "}" THEN Ok(Obj(<<>>, <<>>), j + 1)
                  ELSE ScanMembers(t, j, Obj(<<>>, <<>>))
    ELSE IF t[i] = "["
         THEN LET j == SkipWs(t, i + 1)
              IN  IF j <= Len(t) /\ t[j] = "]" THEN Ok(Arr(<<>>), j + 1)
                  ELSE ScanElements(t, j, Arr(<<>>))
    ELSE IF StartsWithAt(t, i, <<"t", "r", "u", "e">>) THEN Ok(JTrue, i + 4)
    ELSE IF StartsWithAt(t, i, <<"f", "a", "l", "s", "e">>) THEN Ok(JFalse, i + 5)
    ELSE IF StartsWithAt(t, i, <<"n", "u", "l", "l">>) THEN Ok(None, i + 4)
    ELSE Fail

(* json.loads(text): one value, then nothing but whitespace *)
Loads(t) ==
    LET r == ScanValue(t, SkipWs(t, 1))
    IN  IF r.ok /\ SkipWs(t, r.pos) = Len(t) + 1 THEN r ELSE Fail

-----------------------------------------------------------------------------
(* The keys of the document, as text *)

kContact == <<"c", "o", "n", "t", "a", "c", "t">>
kName == <<"n", "a", "m", "e">>
kEmail == <<"e", "m", "a", "i", "l">>
kPhone == <<"p", "h", "o", "n", "e">>
kWebsite == <<"w", "e", "b", "s", "i", "t", "e">>
kLinkedin == <<"l", "i", "n", "k", "e", "d", "i", "n">>
kGithub == <<"g", "i", "t", "h", "u", "b">>
kSummary == <<"s", "u", "m", "m", "a", "r", "y">>
kSkills == <<"s", "k", "i", "l", "l", "s">>
kLabel == <<"l", "a", "b", "e", "l">>
kItems == <<"i", "t", "e", "m", "s">>
kExperience == <<"e", "x", "p", "e", "r", "i", "e", "n", "c", "e">>
kCompany == <<"c", "o", "m", "p", "a", "n", "y">>
kRoles == <<"r", "o", "l", "e", "s">>
kTitle == <<"t", "i", "t", "l", "e">>
kPeriod == <<"p", "e", "r", "i", "o", "d">>
kDescription == <<"d", "e", "s", "c", "r", "i", "p", "t", "i", "o", "n">>
kPageBreakAfter == <<"p", "a", "g", "e", "B", "r", "e", "a", "k", "A", "f", "t", "e", "r">>
kProjects == <<"p", "r", "o", "j", "e", "c", "t", "s">>
kEducation == <<"e", "d", "u", "c", "a", "t", "i", "o", "n">>
kDegree == <<"d", "e", "g", "r", "e", "e">>
kInstitution == <<"i", "n", "s", "t", "i", "t", "u", "t", "i", "o", "n">>
kFocus == <<"f", "o", "c", "u", "s">>

-----------------------------------------------------------------------------
(* Python's dict and str operations used by the renderer *)

(* key in d *)
Has(o, key) == \E j \in 1..Len(o.keys) : o.keys[j] = key

(* d[key], for a key that is present *)
Get(o, key) == o.kids[CHOOSE j \in 1..Len(o.keys) : o.keys[j] = key]

(* d.get(key, dflt) *)
GetOr(o, key, dflt) == IF Has(o, key) THEN Get(o, key) ELSE dflt

(* bool(v) *)
Truthy(v) ==
    CASE v.k = "str" -> v.s # <<>>
      [] v.k \in {"arr", "obj"} -> v.kids # <<>>
      [] v.k = "true" -> TRUE
      [] OTHER -> FALSE

(* stand-ins for U+00A0 (no-break space) and U+00B7 (middle dot) *)
NBSP == "_"
MIDDOT == "*"

(* the characters str.strip() removes *)
StripChars == {" ", "\n", "\t", "\r", NBSP}

RECURSIVE LStrip(_)
LStrip(s) == IF s # <<>> /\ Head(s) \in StripChars THEN LStrip(Tail(s)) ELSE s

RECURSIVE RStrip(_)
RStrip(s) ==
    IF s # <<>> /\ s[Len(s)] \in StripChars THEN RStrip(SubSeq(s, 1, Len(s) - 1)) ELSE s

Strip(s) == RStrip(LStrip(s))

(* s.split(sep), scanning from position i with the piece cur in hand *)
RECURSIVE SplitFrom(_, _, _, _)
SplitFrom(s, sep, i, cur) ==
    IF i > Len(s) THEN <<cur>>
    ELSE IF StartsWithAt(s, i, sep)
         THEN <<cur>> \o SplitFrom(s, sep, i + Len(sep), <<>>)
         ELSE SplitFrom(s, sep, i + 1, Append(cur, s[i]))

Split(s, sep) == SplitFrom(s, sep, 1, <<>>)

(* sep.join(parts) *)
RECURSIVE Join(_, _)
Join(parts, sep) ==
    IF parts = <<>> THEN <<>>
    ELSE IF Len(parts) = 1 THEN parts[1]
    ELSE parts[1] \o sep \o Join(Tail(parts), sep)

(* xml.sax.saxutils.escape *)
XmlEscapeChar(c) ==
    CASE c = "&" -> <<"&", "a", "m", "p", ";">>
      [] c = ">" -> <<"&", "g", "t", ";">>
      [] c = "<" -> <<"&", "l", "t", ";">>
      [] OTHER -> <<c>>

RECURSIVE XmlEscape(_)
XmlEscape(s) == IF s = <<>> THEN <<>> ELSE XmlEscapeChar(Head(s)) \o XmlEscape(Tail(s))

(* esc(text), for a JSON string *)
esc(v) == XmlEscape(v.s)

-----------------------------------------------------------------------------
(* Flowables *)

Paragraph(text, style) ==
    [f |-> "Paragraph", style |-> style, title |-> "", text |-> text, text2 |-> <<>>]
Spacer(height) ==
    [f |-> "Spacer", style |-> height, title |-> "", text |-> <<>>, text2 |-> <<>>]
SpacedText(title) ==
    [f |-> "SpacedText", style |-> "section", title |-> title, text |-> <<>>, text2 |-> <<>>]
HRFlowable ==
    [f |-> "HRFlowable", style |-> "", title |-> "", text |-> <<>>, text2 |-> <<>>]
Table(left, right) ==
    [f |-> "Table", style |-> "", title |-> "", text |-> left, text2 |-> right]
PageBreak ==
    [f |-> "PageBreak", style |-> "", title |-> "", text |-> <<>>, text2 |-> <<>>]

section_header(title) == <<Spacer("5.5mm"), SpacedText(title), HRFlowable>>

B(text) == <<"<", "b", ">">> \o text \o <<"<", "/", "b", ">">>

(* The result of a section builder: the flowables, or the key of the
   KeyError it raised (err = <<>> when it raised none). *)
Built(items) == [err |-> <<>>, items |-> items]
KeyError(key) == [err |-> key, items |-> <<>>]

ThenIgnoringErrors(first, rest) == Built(first.items \o rest.items)

(* Statements in sequence: the second runs only when the first raised
   nothing, and an error raised by either is the error of both. *)
Then(first, rest) ==
    IF first.err # <<>> THEN first
    ELSE IF rest.err # <<>> THEN rest
    ELSE Built(first.items \o rest.items)

-----------------------------------------------------------------------------
(* Section builders *)

RECURSIVE ContactRow(_, _)
ContactRow(contact, fields) ==
    IF fields = <<>> THEN <<>>
    ELSE (IF Truthy(GetOr(contact, Head(fields), None))
          THEN <<esc(Get(contact, Head(fields)))>> ELSE <<>>)
         \o ContactRow(contact, Tail(fields))

build_contact(contact) ==
    LET sep == <<NBSP, NBSP, MIDDOT, NBSP, NBSP>>
        row1 == ContactRow(contact, <<kEmail, kPhone, kWebsite>>)
        row2 == ContactRow(contact, <<kLinkedin, kGithub>>)
    IN  (IF row1 # <<>> THEN <<Paragraph(Join(row1, sep), "contact")>> ELSE <<>>)
        \o (IF row2 # <<>> THEN <<Paragraph(Join(row2, sep), "contact")>> ELSE <<>>)

EscAll(vals) == [i \in 1..Len(vals) |-> esc(vals[i])]

RECURSIVE SkillItems(_, _)
SkillItems(skills, i) ==
    IF i > Len(skills) THEN <<>>
    ELSE LET skill == skills[i]
             label == esc(GetOr(skill, kLabel, Str(<<>>)))
             vals == GetOr(skill, kItems, Arr(<<>>))
         IN  (IF label # <<>> /\ Truthy(vals)
              THEN <<Paragraph(B(label \o <<":">>) \o <<" ">>
                               \o Join(EscAll(vals.kids), <<",", " ">>), "body")>>
              ELSE <<>>)
             \o SkillItems(skills, i + 1)

build_skills(skills) == section_header("Skills") \o SkillItems(skills.kids, 1)

(* line 308: the stripped, non-blank pieces *)
RECURSIVE StripNonBlank(_)
StripNonBlank(parts) ==
    IF parts = <<>> THEN <<>>
    ELSE (IF Strip(Head(parts)) # <<>> THEN <<Strip(Head(parts))>> ELSE <<>>)
         \o StripNonBlank(Tail(parts))

AlwaysPeriod(sent) == Append(sent, ".")

(* lines 310-311 *)
WithPeriod(sent) == IF EndsWith(sent, <<".">>) THEN sent ELSE Append(sent, ".")

RECURSIVE BulletParagraphs(_)
BulletParagraphs(sentences) ==
    IF sentences = <<>> THEN <<>>
    ELSE <<Paragraph(<<MIDDOT, NBSP, NBSP>> \o XmlEscape(WithPeriod(Head(sentences))),
                     "bullet")>>
         \o BulletParagraphs(Tail(sentences))

(* lines 306-314: the bullets of one role *)
DescriptionItems(d) ==
    IF d # <<>> THEN BulletParagraphs(StripNonBlank(Split(d, <<".", " ">>))) ELSE <<>>

RECURSIVE RoleItems(_, _, _)
RoleItems(company, roles, i) ==
    IF i > Len(roles) THEN Built(<<>>)
    ELSE LET role == roles[i]
         IN  IF ~Has(role, kTitle) THEN KeyError(kTitle)
             ELSE LET title == esc(Get(role, kTitle))
                      period == esc(GetOr(role, kPeriod, Str(<<>>)))
                      head == B(company \o <<" ", "-", " ">> \o title)
                  IN  Then(Built(<<Table(head, period)>>
                                 \o DescriptionItems(GetOr(role, kDescription, Str(<<>>)).s)
                                 \o <<Spacer("2.5mm")>>),
                           RoleItems(company, roles, i + 1))

RECURSIVE ExperienceItems(_, _)
ExperienceItems(experience, i) ==
    IF i > Len(experience) THEN Built(<<>>)
    ELSE LET exp == experience[i]
         IN  IF ~Has(exp, kCompany) THEN KeyError(kCompany)
             ELSE Then(Then(RoleItems(esc(Get(exp, kCompany)),
                                      GetOr(exp, kRoles, Arr(<<>>)).kids, 1),
                            Built(IF Truthy(GetOr(exp, kPageBreakAfter, None))
                                  THEN <<PageBreak>> ELSE <<>>)),
                       ExperienceItems(experience, i + 1))

build_experience(experience) ==
    Then(Built(section_header("Experience")), ExperienceItems(experience.kids, 1))

RECURSIVE ProjectItems(_, _)
ProjectItems(projects, i) ==
    IF i > Len(projects) THEN Built(<<>>)
    ELSE LET proj == projects[i]
         IN  IF ~Has(proj, kName) THEN KeyError(kName)
             ELSE Then(Built(<<Paragraph(B(esc(Get(proj, kName))), "proj_name")>>
                             \o (IF Truthy(GetOr(proj, kDescription, None))
                                 THEN <<Paragraph(esc(Get(proj, kDescription)), "proj_desc")>>
                                 ELSE <<>>)
                             \o <<Spacer("2mm")>>
                             \o (IF Truthy(GetOr(proj, kPageBreakAfter, None))
                                 THEN <<PageBreak>> ELSE <<>>)),
                       ProjectItems(projects, i + 1))

build_projects(projects) ==
    Then(Built(section_header("Projects")), ProjectItems(projects.kids, 1))

RECURSIVE EducationItems(_, _)
EducationItems(education, i) ==
    IF i > Len(education) THEN Built(<<>>)
    ELSE LET edu == education[i]
         IN  IF ~Has(edu, kInstitution) THEN KeyError(kInstitution)
             ELSE LET degree == esc(GetOr(edu, kDegree, Str(<<>>)))
                      institution == esc(Get(edu, kInstitution))
                      period == esc(GetOr(edu, kPeriod, Str(<<>>)))
                      focus == GetOr(edu, kFocus, Arr(<<>>))
                      main_text == IF degree # <<>> THEN B(degree) ELSE B(institution)
                  IN  Then(Built(<<Table(main_text, period)>>
                                 \o (IF degree # <<>>
                                     THEN <<Paragraph(institution, "body")>> ELSE <<>>)
                                 \o (IF Truthy(focus)
                                     THEN <<Paragraph(Join(EscAll(focus.kids), <<",", " ">>),
                                                      "body")>>
                                     ELSE <<>>)
                                 \o <<Spacer("2mm")>>
                                 \o (IF Truthy(GetOr(edu, kPageBreakAfter, None))
                                     THEN <<PageBreak>> ELSE <<>>)),
                           EducationItems(education, i + 1))

build_education(education) ==
    Then(Built(section_header("Education")), EducationItems(education.kids, 1))

-----------------------------------------------------------------------------
(* build_pdf: the story is built section by section, then written *)

SummaryRequired(data) ==
    IF Has(data, kSummary) THEN Built(<<Paragraph(esc(Get(data, kSummary)), "summary")>>)
    ELSE KeyError(kSummary)

(* line 405 *)
SummaryParagraph(data) ==
    Built(<<Paragraph(esc(GetOr(data, kSummary, Str(<<>>))), "summary")>>)

Sections == <<"name", "contact", "summary", "skills", "experience", "projects",
              "education">>

(* what build_pdf appends to the story at each of its sections *)
Section(pc, data) ==
    CASE pc = "name" ->
           IF ~Has(data, kContact) THEN KeyError(kContact)
           ELSE IF ~Has(Get(data, kContact), kName) THEN KeyError(kName)
           ELSE Built(<<Paragraph(esc(Get(Get(data, kContact), kName)), "name"),
                        Spacer("2mm")>>)
      [] pc = "contact" -> Built(build_contact(Get(data, kContact)))
      [] pc = "summary" ->
           Then(Built(section_header("Professional Summary")), SummaryParagraph(data))
      [] pc = "skills" -> Built(build_skills(GetOr(data, kSkills, Arr(<<>>))))
      [] pc = "experience" -> build_experience(GetOr(data, kExperience, Arr(<<>>)))
      [] pc = "projects" -> build_projects(GetOr(data, kProjects, Arr(<<>>)))
      [] pc = "education" -> build_education(GetOr(data, kEducation, Arr(<<>>)))

RECURSIVE StoryFrom(_, _)
StoryFrom(data, i) ==
    IF i > Len(Sections) THEN Built(<<>>)
    ELSE Then(Section(Sections[i], data), StoryFrom(data, i + 1))

(* lines 392-417, as one step: the whole story or the first KeyError *)
BuildStory(data) == StoryFrom(data, 1)

-----------------------------------------------------------------------------
(* The documents the renderer is run on: every combination of the section
   variants below. *)

Some(v) == [present |-> TRUE, v |-> v]
Absent == [present |-> FALSE, v |-> None]

(* the object with the fields that are present, in order *)
RECURSIVE MkObj(_)
MkObj(fields) ==
    IF fields = <<>> THEN Obj(<<>>, <<>>)
    ELSE LET last == fields[Len(fields)]
             o == MkObj(SubSeq(fields, 1, Len(fields) - 1))
         IN  IF last[2].present THEN ObjPut(o, last[1], last[2].v) ELSE o

O1(k1, v1) == Obj(<<k1>>, <<v1>>)
O2(k1, v1, k2, v2) == Obj(<<k1, k2>>, <<v1, v2>>)

ContactVariants ==
    { Absent,
      Some(Obj(<<>>, <<>>)),
      Some(O1(kName, Str(<<"N">>))),
      Some(Obj(<<kName, kEmail, kGithub>>,
               <<Str(<<"N", "<">>), Str(<<"e", "@">>), Str(<<"g">>)>>)),
      Some(O2(kEmail, Str(<<"e">>), kPhone, Str(<<>>))) }

SummaryVariants == { Absent, Some(Str(<<"S", "&">>)) }

SkillsVariants ==
    { Absent,
      Some(Arr(<<O2(kLabel, Str(<<"L">>), kItems, Arr(<<Str(<<"i">>), Str(<<"j">>)>>)),
                 O2(kLabel, Str(<<>>), kItems, Arr(<<Str(<<"i">>)>>)),
                 O1(kLabel, Str(<<"M">>))>>)) }

RoleFull ==
    Obj(<<kTitle, kPeriod, kDescription>>,
        <<Str(<<"T">>), Str(<<"P">>), Str(<<"X", ".", " ", "Y", ".">>)>>)

ExperienceVariants ==
    { Absent,
      Some(Arr(<<>>)),
      Some(Arr(<<Obj(<<kCompany, kRoles, kPageBreakAfter>>,
                     <<Str(<<"C">>), Arr(<<RoleFull>>), JTrue>>)>>)),
      Some(Arr(<<O1(kCompany, Str(<<"C">>))>>)),
      Some(Arr(<<O1(kRoles, Arr(<<>>))>>)),
      Some(Arr(<<O2(kCompany, Str(<<"C">>),
                    kRoles, Arr(<<O1(kTitle, Str(<<"T">>)), O1(kPeriod, Str(<<"P">>))>>))>>)),
      Some(Arr(<<O2(kCompany, Str(<<"C">>), kRoles, Arr(<<O1(kTitle, Str(<<"T">>))>>)),
                 O1(kRoles, Arr(<<RoleFull>>))>>)) }

ProjectsVariants ==
    { Absent,
      Some(Arr(<<Obj(<<kName, kDescription, kPageBreakAfter>>,
                     <<Str(<<"P">>), Str(<<"D">>), JTrue>>)>>)),
      Some(Arr(<<O1(kName, Str(<<"P">>)), O2(kName, Str(<<"Q">>), kPageBreakAfter, JFalse)>>)),
      Some(Arr(<<O1(kDescription, Str(<<"D">>))>>)),
      Some(Arr(<<O1(kName, Str(<<"P">>)), Obj(<<>>, <<>>)>>)) }

EducationVariants ==
    { Absent,
      Some(Arr(<<Obj(<<kDegree, kInstitution, kPeriod, kFocus, kPageBreakAfter>>,
                     <<Str(<<"D">>), Str(<<"I">>), Str(<<"P">>),
                       Arr(<<Str(<<"f">>), Str(<<"g">>)>>), JTrue>>)>>)),
      Some(Arr(<<O1(kInstitution, Str(<<"I">>))>>)),
      Some(Arr(<<O1(kInstitution, Str(<<"I">>)), O1(kDegree, Str(<<"D">>))>>)) }

RenderDocs ==
    { MkObj(<<<<kContact, c>>, <<kSummary, su>>, <<kSkills, sk>>, <<kExperience, ex>>,
              <<kProjects, pr>>, <<kEducation, ed>>>>) :
        c \in ContactVariants, su \in SummaryVariants, sk \in SkillsVariants,
        ex \in ExperienceVariants, pr \in ProjectsVariants, ed \in EducationVariants }

-----------------------------------------------------------------------------
(* Files *)

NoFile == [exists |-> FALSE, text |-> <<>>]
File(text) == [exists |-> TRUE, text |-> text]

(* the file at output_path: absent, or left by an earlier run *)
NoOutput == [exists |-> FALSE, content |-> <<>>]
OldOutput == [exists |-> TRUE, content |-> <<Paragraph(<<"o", "l", "d">>, "name")>>]

(* doc.build(story) writes the PDF laid out from the story: lines 419-440 *)
WrittenPdf(st) == [exists |-> TRUE, content |-> st]

-----------------------------------------------------------------------------
(* The version store and the service at rest *)

(* server.py line 16 *)
CV_PATH == "cv.json"

Paths == {CV_PATH, "other.json"}

NoResp ==
    [op |-> "none", status |-> "", arg |-> "", n |-> 0, id |-> 0, doc |-> None,
     created_at |-> 0, source |-> "", list |-> <<>>]

NoPut == [valid |-> FALSE, doc |-> None]

DbIdle ==
    /\ tableExists = FALSE
    /\ rows = <<>>
    /\ seq = 0
    /\ clock = 0
    /\ files = [p \in Paths |-> NoFile]
    /\ booted = FALSE
    /\ inflight = EmptyBag
    /\ resp = NoResp
    /\ returned = <<>>
    /\ saved = <<>>
    /\ nSeeded = 0
    /\ nPut = 0
    /\ nGen = 0
    /\ raced = FALSE
    /\ lastPut = NoPut

RenderIdle ==
    /\ rdata = None
    /\ rpc = "idle"
    /\ story = <<>>
    /\ rerr = <<>>
    /\ out0 = NoOutput
    /\ outFile = NoOutput

BulletsIdle ==
    /\ desc = <<>>
    /\ bullets = <<>>
    /\ bpc = "idle"

-----------------------------------------------------------------------------
(* db.py: the cv_versions table *)

Max(a, b) == IF a >= b THEN a ELSE b
Min(a, b) == IF a <= b THEN a ELSE b

RowSet(rs) == {rs[i] : i \in 1..Len(rs)}

MaxId(rs) == IF rs = <<>> THEN 0 ELSE CHOOSE m \in {r.id : r \in RowSet(rs)} :
                                        \A r \in RowSet(rs) : r.id <= m

(* INTEGER PRIMARY KEY AUTOINCREMENT: one more than the largest rowid the
   table has ever held *)
NextRowid(rs, sq) == Max(MaxId(rs), sq) + 1

InsertOrReplace(rs, sq, data, source, now) ==
    IF rs = <<>>
    THEN <<[id |-> 1, data |-> data, created_at |-> now, source |-> source]>>
    ELSE [rs EXCEPT ![Len(rs)] =
            [id |-> rs[Len(rs)].id, data |-> data, created_at |-> now, source |-> source]]

(* INSERT INTO cv_versions (data, source) VALUES (?, ?); created_at defaults
   to the time of the insert *)
Insert(rs, sq, data, source, now) ==
    Append(rs, [id |-> NextRowid(rs, sq), data |-> data, created_at |-> now,
                source |-> source])

OrderByIdAsc(rs) == rs

(* ORDER BY id DESC *)
RECURSIVE OrderByIdDesc(_)
OrderByIdDesc(rs) ==
    IF rs = <<>> THEN <<>>
    ELSE LET i == CHOOSE i \in 1..Len(rs) : rs[i].id = MaxId(rs)
         IN  <<rs[i]>> \o OrderByIdDesc(SubSeq(rs, 1, i - 1) \o SubSeq(rs, i + 1, Len(rs)))

(* LIMIT n: a negative n is no limit *)
Limit(rs, n) == IF n < 0 THEN rs ELSE SubSeq(rs, 1, Min(n, Len(rs)))

(* WHERE id = ? *)
WhereId(rs, id) == SelectSeq(rs, LAMBDA r : r.id = id)

SeedAlways(rs, sq, file, now) ==
    IF file.exists THEN Insert(rs, sq, file.text, "import", now) ELSE rs

(* seed_from_json(path): the rows it leaves, given the file at path *)
SeedRows(rs, sq, file, now) ==
    IF Len(rs) = 0 /\ file.exists THEN Insert(rs, sq, file.text, "import", now) ELSE rs

(* save_version(data, source): the rows it leaves *)
SaveRows(rs, sq, data, source, now) == Insert(rs, sq, Dumps(data), source, now)

(* cur.lastrowid after that insert *)
LastRowid(rs, sq, data, source, now) ==
    LET after == SaveRows(rs, sq, data, source, now) IN after[Len(after)].id

(* get_latest(): [ok, val]; val is None when there is no row; ok is FALSE
   when json.loads raises *)
get_latest(rs) ==
    LET row == Limit(OrderByIdDesc(rs), 1)
    IN  IF row # <<>> THEN Loads(row[1].data) ELSE Ok(None, 0)

(* list_versions(limit) *)
list_versions(rs, limit) ==
    LET got == Limit(OrderByIdDesc(rs), limit)
    IN  [i \in 1..Len(got) |->
           [id |-> got[i].id, created_at |-> got[i].created_at, source |-> got[i].source]]

FirstRow(rs, version_id) == Limit(rs, 1)

(* the row get_version fetches: at most one *)
FetchVersion(rs, version_id) == Limit(WhereId(rs, version_id), 1)

(* db.py line 66: limit=50 *)
DefaultLimit == 50

(* the documents callers save *)
DocA == Obj(<<kContact, kSkills>>, <<O1(kName, Str(<<"A", "\"">>)), Arr(<<>>)>>)
DocB == Obj(<<kSummary, kContact>>, <<Str(<<"\\", "\n">>), Obj(<<>>, <<>>)>>)

(* a hand-written cv.json *)
HandWritten ==
    <<"{", "\t", "\"", "s", "u", "m", "m", "a", "r", "y", "\"", ":", "\"", "s", "\"", ",",
      "\r", "\n", " ", "\"", "c", "o", "n", "t", "a", "c", "t", "\"", " ", ":", " ", "{",
      "\"", "n", "a", "m", "e", "\"", ":", "\"", "H", "\"", "}", " ", "}", "\n">>

Raised(op) == [NoResp EXCEPT !.op = op, !.status = "OperationalError"]
Done(op) == [NoResp EXCEPT !.op = op, !.status = "ok"]

serverHistory == <<booted, inflight, nPut, nGen, raced>>

Tick ==
    /\ clock < MaxClock
    /\ clock' = clock + 1
    /\ UNCHANGED <<tableExists, rows, seq, files, booted, inflight, resp, returned,
                   saved, nSeeded, nPut, nGen, raced, lastPut>>
    /\ UNCHANGED renderVars
    /\ UNCHANGED bulletVars

(* init_db() *)
CallInitDb ==
    /\ tableExists' = TRUE
    /\ resp' = Done("init_db")
    /\ UNCHANGED <<rows, seq, clock, files, returned, saved, nSeeded, lastPut>>
    /\ UNCHANGED serverHistory
    /\ UNCHANGED renderVars
    /\ UNCHANGED bulletVars

(* seed_from_json(path) *)
CallSeedFromJson(path) ==
    /\ IF tableExists
       THEN /\ rows' = SeedRows(rows, seq, files[path], clock)
            /\ seq' = MaxId(rows')
            /\ nSeeded' = nSeeded + (Len(rows') - Len(rows))
            /\ resp' = [Done("seed_from_json") EXCEPT !.arg = path]
       ELSE /\ resp' = [Raised("seed_from_json") EXCEPT !.arg = path]
            /\ UNCHANGED <<rows, seq, nSeeded>>
    /\ lastPut' = IF rows' = rows THEN lastPut ELSE NoPut
    /\ UNCHANGED <<tableExists, clock, files, returned, saved>>
    /\ UNCHANGED serverHistory
    /\ UNCHANGED renderVars
    /\ UNCHANGED bulletVars

(* save_version(data, source) *)
CallSaveVersion(data, source) ==
    /\ Len(rows) < MaxCalls
    /\ IF tableExists
       THEN /\ rows' = SaveRows(rows, seq, data, source, clock)
            /\ seq' = MaxId(rows')
            /\ LET version_id == LastRowid(rows, seq, data, source, clock)
               IN  /\ returned' = Append(returned, version_id)
                   /\ saved' = (version_id :> data) @@ saved
                   /\ resp' = [Done("save_version") EXCEPT !.id = version_id]
            /\ lastPut' = NoPut
       ELSE /\ resp' = Raised("save_version")
            /\ UNCHANGED <<rows, seq, returned, saved, lastPut>>
    /\ UNCHANGED <<tableExists, clock, files, nSeeded>>
    /\ UNCHANGED serverHistory
    /\ UNCHANGED renderVars
    /\ UNCHANGED bulletVars

(* list_versions(limit) *)
CallListVersions(limit) ==
    /\ resp' = IF ~tableExists THEN [Raised("list_versions") EXCEPT !.n = limit]
               ELSE [Done("list_versions") EXCEPT
                       !.n = limit, !.list = list_versions(rows, limit)]
    /\ UNCHANGED <<tableExists, rows, seq, clock, files, returned, saved, nSeeded, lastPut>>
    /\ UNCHANGED serverHistory
    /\ UNCHANGED renderVars
    /\ UNCHANGED bulletVars

(* get_version(version_id): the record, or None; n holds the id asked for *)
get_version(rs, version_id) ==
    LET row == FetchVersion(rs, version_id)
        data == Loads(row[1].data)
    IN  IF row = <<>> THEN [NoResp EXCEPT !.status = "None", !.n = version_id]
        ELSE IF ~data.ok
             THEN [NoResp EXCEPT !.status = "JSONDecodeError", !.n = version_id]
        ELSE [NoResp EXCEPT !.status = "ok", !.n = version_id, !.id = row[1].id,
                            !.doc = data.val,
                            !.created_at = row[1].created_at, !.source = row[1].source]

(* the save_version calls made *)
SaveCalls == {<<DocA, "manual">>, <<DocB, "generate">>}

(* a fresh deployment: no database yet; cv.json may be there, other.json is
   not *)
InitDb ==
    /\ tableExists = FALSE
    /\ rows = <<>>
    /\ seq = 0
    /\ clock = 0
    /\ files \in {[p \in Paths |-> IF p = CV_PATH THEN f ELSE NoFile] :
                   f \in {NoFile, File(HandWritten)}}
    /\ booted = FALSE
    /\ inflight = EmptyBag
    /\ resp = NoResp
    /\ returned = <<>>
    /\ saved = <<>>
    /\ nSeeded = 0
    /\ nPut = 0
    /\ nGen = 0
    /\ raced = FALSE
    /\ lastPut = NoPut
    /\ RenderIdle
    /\ BulletsIdle

NextDb ==
    \/ Tick
    \/ CallInitDb
    \/ \E path \in Paths : CallSeedFromJson(path)
    \/ \E call \in SaveCalls : CallSaveVersion(call[1], call[2])
    \/ \E limit \in -1..(MaxCalls + 1) : CallListVersions(limit)

SpecDb == InitDb /\ [][NextDb]_vars

-----------------------------------------------------------------------------
(* server.py: start-up and the request handlers.  A PUT or a generate request
   writes cv.json and then inserts its row; other requests may run between
   the two writes. *)

(* the documents clients send: a CV, and the JSON document null *)
RequestDocs == {DocA, None}

(* lines 28-35 *)
EmptyCv ==
    Obj(<<kContact, kSummary, kSkills, kExperience, kProjects, kEducation>>,
        <<Obj(<<kName, kEmail, kPhone, kWebsite, kLinkedin, kGithub>>,
              <<Str(<<>>), Str(<<>>), Str(<<>>), Str(<<>>), Str(<<>>), Str(<<>>)>>),
          Str(<<>>), Arr(<<>>), Arr(<<>>), Arr(<<>>), Arr(<<>>)>>)

Request(op, data) == [op |-> op, doc |-> data]
Pending == BagCardinality(inflight)

Http(op, status) == [NoResp EXCEPT !.op = op, !.status = status]

(* CV_PATH.write_text(json.dumps(data, indent=2, ensure_ascii=False) + "\n") *)
WriteCv(fs, data) == [fs EXCEPT ![CV_PATH] = File(DumpsIndent(data))]

(* lines 18-19, at every start of the process: init_db(); seed_from_json(CV_PATH) *)
Startup ==
    /\ inflight = EmptyBag
    /\ tableExists' = TRUE
    /\ booted' = TRUE
    /\ rows' = SeedRows(rows, seq, files[CV_PATH], clock)
    /\ seq' = MaxId(rows')
    /\ nSeeded' = nSeeded + (Len(rows') - Len(rows))
    /\ lastPut' = IF rows' = rows THEN lastPut ELSE NoPut
    /\ resp' = Done("startup")
    /\ UNCHANGED <<clock, files, inflight, returned, saved, nPut, nGen, raced>>
    /\ UNCHANGED renderVars
    /\ UNCHANGED bulletVars

(* get_cv: the document it answers with, [ok, val] *)
get_cv(rs, fs) ==
    LET latest == get_latest(rs)
        data == IF latest.ok /\ latest.val = None /\ fs[CV_PATH].exists
                THEN Loads(fs[CV_PATH].text)
                ELSE latest
    IN  IF data.ok /\ data.val = None THEN Ok(EmptyCv, 0) ELSE data

(* GET /api/cv *)
GetCv ==
    /\ booted
    /\ LET data == get_cv(rows, files)
       IN  resp' = IF data.ok THEN [Http("GET /api/cv", "200") EXCEPT !.doc = data.val]
                   ELSE Http("GET /api/cv", "500")
    /\ UNCHANGED <<tableExists, rows, seq, clock, files, booted, inflight, returned,
                   saved, nSeeded, nPut, nGen, raced, lastPut>>
    /\ UNCHANGED renderVars
    /\ UNCHANGED bulletVars

(* a request's first write: lines 41-42 and 49-50 *)
BeginWrite(op, data) ==
    /\ booted
    /\ Pending < MaxInflight
    /\ Len(rows) + Pending < MaxRequests
    /\ files' = WriteCv(files, data)
    /\ inflight' = inflight (+) SetToBag({Request(op, data)})
    /\ raced' = (inflight # EmptyBag)
    /\ lastPut' = NoPut
    /\ UNCHANGED <<tableExists, rows, seq, clock, booted, resp, returned, saved, nSeeded>>
    /\ UNCHANGED renderVars
    /\ UNCHANGED bulletVars

(* PUT /api/cv, line 42 *)
PutBegin(data) ==
    /\ BeginWrite("put", data)
    /\ nPut' = nPut + 1
    /\ UNCHANGED nGen

(* POST /api/generate, line 50 *)
GenBegin(data) ==
    /\ BeginWrite("generate", data)
    /\ nGen' = nGen + 1
    /\ UNCHANGED nPut

GenerateTaggedManual == "manual"

(* line 51: the tag generate saves under *)
GenerateSource == "generate"

(* a request's second write, save_version(data, source) *)
EndWrite(r, source) ==
    /\ BagIn(r, inflight)
    /\ inflight' = inflight (-) SetToBag({r})
    /\ rows' = SaveRows(rows, seq, r.doc, source, clock)
    /\ seq' = MaxId(rows')
    /\ LET version_id == LastRowid(rows, seq, r.doc, source, clock)
       IN  /\ returned' = Append(returned, version_id)
           /\ saved' = (version_id :> r.doc) @@ saved
    /\ UNCHANGED <<tableExists, clock, files, booted, nSeeded, nPut, nGen, raced>>
    /\ UNCHANGED renderVars
    /\ UNCHANGED bulletVars

(* PUT /api/cv, lines 43-44: save_version(data, "manual") and the answer *)
PutEnd(data) ==
    /\ EndWrite(Request("put", data), "manual")
    /\ resp' = [Http("PUT /api/cv", "200") EXCEPT
                  !.doc = data,
                  !.id = LastRowid(rows, seq, data, "manual", clock)]
    /\ lastPut' = [valid |-> TRUE, doc |-> data]

(* POST /api/generate, lines 51-54: the PDF, or the renderer's error *)
GenEnd(data) ==
    /\ EndWrite(Request("generate", data), GenerateSource)
    /\ resp' = [Http("POST /api/generate",
                     IF BuildStory(data).err = <<>> THEN "200" ELSE "500") EXCEPT
                  !.doc = data]
    /\ lastPut' = NoPut

(* GET /api/versions *)
VersionsList ==
    /\ booted
    /\ resp' = [Http("GET /api/versions", "200") EXCEPT
                  !.list = list_versions(rows, DefaultLimit)]
    /\ UNCHANGED <<tableExists, rows, seq, clock, files, booted, inflight, returned,
                   saved, nSeeded, nPut, nGen, raced, lastPut>>
    /\ UNCHANGED renderVars
    /\ UNCHANGED bulletVars

(* versions_get(vid): lines 64-67 *)
versions_get(rs, vid) ==
    LET v == get_version(rs, vid)
    IN  IF v.status = "None"
        THEN [Http("GET /api/versions/{id}", "404") EXCEPT
                !.n = vid, !.arg = "not found"]
        ELSE IF v.status = "ok"
             THEN [v EXCEPT !.op = "GET /api/versions/{id}", !.status = "200"]
        ELSE [Http("GET /api/versions/{id}", "500") EXCEPT !.n = vid]

(* GET /api/versions/<vid> *)
VersionsGet(vid) ==
    /\ booted
    /\ resp' = versions_get(rows, vid)
    /\ UNCHANGED <<tableExists, rows, seq, clock, files, booted, inflight, returned,
                   saved, nSeeded, nPut, nGen, raced, lastPut>>
    /\ UNCHANGED renderVars
    /\ UNCHANGED bulletVars

(* the ids clients ask for: the first, the latest and one not there yet *)
AskedIds == {1, MaxId(rows), MaxId(rows) + 1}

NextServer ==
    \/ Tick
    \/ Startup
    \/ GetCv
    \/ \E data \in RequestDocs : PutBegin(data)
    \/ \E data \in RequestDocs : PutEnd(data)
    \/ \E data \in RequestDocs : GenBegin(data)
    \/ \E data \in RequestDocs : GenEnd(data)
    \/ VersionsList
    \/ \E vid \in AskedIds : VersionsGet(vid)

SpecServer == InitDb /\ [][NextServer]_vars

-----------------------------------------------------------------------------
(* Properties of the version store *)

(* C1: the ids save_version returns are strictly increasing in call order,
   and after N calls list_versions(limit=k), for every k <= N, returns exactly
   the k highest of them, highest first (all of them when k = N). *)
C1_IdsIncreaseListDescends ==
    /\ \A i, j \in 1..Len(returned) : i < j => returned[i] < returned[j]
    /\ (resp.op = "list_versions" /\ resp.status = "ok" /\ resp.n \in 0..Len(returned))
         => /\ Len(resp.list) = resp.n
            /\ \A j \in 1..resp.n : resp.list[j].id = returned[Len(returned) - j + 1]

(* C1 witness: three saves, then list_versions(limit=2) answered with two entries *)
C1_Witness ==
    /\ Len(returned) = 3
    /\ resp.op = "list_versions"
    /\ resp.n = 2
    /\ Len(resp.list) = 2

(* C4: on an initialised store a call of seed_from_json(path) inserts exactly
   one row, tagged "import" and holding the text of the file, when there is no
   row and the file exists; every other call leaves the rows as they are, so
   no call after the first row exists changes the row count. *)
C4_SeedOnlyIntoEmptyStore ==
    [][(resp'.op = "seed_from_json" /\ clock' = clock)
         => IF tableExists /\ rows = <<>> /\ files[resp'.arg].exists
            THEN /\ Len(rows') = 1
                 /\ rows'[1].source = "import"
                 /\ rows'[1].data = files[resp'.arg].text
            ELSE rows' = rows]_vars

(* C4 witness: the store was seeded, a version was saved, and a later
   seed_from_json of the same existing file has returned *)
C4_Witness ==
    /\ resp.op = "seed_from_json"
    /\ resp.status = "ok"
    /\ files[resp.arg].exists
    /\ Len(rows) = 2
    /\ rows[1].source = "import"
    /\ nSeeded = 1

-----------------------------------------------------------------------------
(* Properties of the service *)

RowWithId(rs, id) == CHOOSE r \in RowSet(rs) : r.id = id

(* the document a row holds: the one given to save_version, or for an
   imported row the one its text denotes *)
DocumentOf(r, sv) == IF r.id \in DOMAIN sv THEN sv[r.id] ELSE Loads(r.data).val

LatestDocument(rs, sv) == DocumentOf(RowWithId(rs, MaxId(rs)), sv)

LatestIsHighestId(rs, sv, rp) ==
    rs # <<>> =>
        LET latest == get_latest(rs)
            highest == LatestDocument(rs, sv)
        IN  /\ latest.ok
            /\ latest.val = highest
            /\ (rp.op = "GET /api/cv" /\ latest.val # None) => rp.doc = highest

(* C2: no step of the service (start-up with init_db and seed_from_json, and
   the five kinds of request with the save_version, get_latest, list_versions
   and get_version calls they make) removes or changes a row: the rows there
   before are there after with the same id, data, created_at and source; and
   get_latest returns the document of the row with the highest id. *)
C2_AppendOnlyLatestWins ==
    [][/\ Len(rows') >= Len(rows)
       /\ SubSeq(rows', 1, Len(rows)) = rows
       /\ LatestIsHighestId(rows', saved', resp')]_vars

(* C2 witness: two versions are stored and GET /api/cv has answered with the
   later one *)
C2_Witness ==
    /\ Len(rows) = 2
    /\ resp.op = "GET /api/cv"
    /\ resp.doc = DocA
    /\ LatestDocument(rows, saved) = DocA
    /\ DocumentOf(rows[1], saved) # DocA

(* C3 as stated: after a PUT of document D has completed, a GET /api/cv with
   no write in between answers with D. *)
C3_GetReturnsWhatPutSaved ==
    (resp.op = "GET /api/cv" /\ lastPut.valid)
        => (resp.status = "200" /\ resp.doc = lastPut.doc)

VersionAnswerRight(rs, sv, rp) ==
    rp.op = "GET /api/versions/{id}" =>
        IF \E r \in RowSet(rs) : r.id = rp.n
        THEN /\ rp.status = "200"
             /\ rp.id = rp.n
             /\ rp.created_at = RowWithId(rs, rp.n).created_at
             /\ rp.source = RowWithId(rs, rp.n).source
             /\ rp.doc = DocumentOf(RowWithId(rs, rp.n), sv)
        ELSE /\ rp.status = "404"
             /\ rp.arg = "not found"

(* C5: get_version(id) returns the id, document, created_at and source of the
   row with that id, the document being the one given to the save_version call
   that returned the id, and None when there is no such row; GET
   /api/versions/{id} then answers 404 with an error payload, and the request
   changes nothing. *)
C5_GetVersionFoundOrAbsent ==
    [][/\ VersionAnswerRight(rows', saved', resp')
       /\ (resp'.op = "GET /api/versions/{id}" /\ resp' # resp)
            => UNCHANGED <<tableExists, rows, seq, clock, files, booted, inflight,
                           returned, saved, nSeeded, nPut, nGen, raced, lastPut>>]_vars

(* C5 witness: a version is stored and a request for an id that is not there
   was answered 404 *)
C5_Witness ==
    /\ rows # <<>>
    /\ resp.op = "GET /api/versions/{id}"
    /\ resp.status = "404"
    /\ resp.n = MaxId(rows) + 1

Tagged(source) == Cardinality({i \in 1..Len(rows) : rows[i].source = source})

RowsAccountedFor ==
    /\ Len(rows) = nSeeded + nPut + nGen - Pending
    /\ Tagged("import") = nSeeded
    /\ Tagged("manual") + CopiesIn(Request("put", DocA), inflight)
         + CopiesIn(Request("put", None), inflight) = nPut
    /\ Tagged("generate") + CopiesIn(Request("generate", DocA), inflight)
         + CopiesIn(Request("generate", None), inflight) = nGen

(* C6: a step appends at most one row; the row is tagged "manual" and holds
   the document of the PUT that is answered with its id, or is tagged
   "generate" and holds the document of the generate request answered, or is
   the row start-up seeds; no other request appends, and the row count is the
   seeded rows plus the PUT and generate requests received, less those still
   between their two writes. *)
C6_OneRowPerPutOrGenerate ==
    [][/\ RowsAccountedFor'
       /\ \/ rows' = rows
          \/ /\ Len(rows') = Len(rows) + 1
             /\ LET new == rows'[Len(rows')]
                IN  \/ /\ resp'.op = "PUT /api/cv"
                       /\ new.source = "manual"
                       /\ resp'.id = new.id
                       /\ Loads(new.data) = Ok(resp'.doc, Len(new.data) + 1)
                    \/ /\ resp'.op = "POST /api/generate"
                       /\ new.source = "generate"
                       /\ Loads(new.data) = Ok(resp'.doc, Len(new.data) + 1)
                    \/ /\ resp'.op = "startup"
                       /\ new.source = "import"]_vars

(* C6 witness: one of two requests received is still between its writes and
   the other, a generate, has been answered *)
C6_Witness ==
    /\ nPut = 1
    /\ nGen = 1
    /\ Pending = 1
    /\ Len(rows) = nSeeded + 1
    /\ resp.op = "POST /api/generate"

(* cv.json and the latest row hold the same document (or there is neither) *)
FileAgreesWithLatest ==
    IF rows = <<>> THEN ~files[CV_PATH].exists
    ELSE /\ files[CV_PATH].exists
         /\ Loads(files[CV_PATH].text).ok
         /\ Loads(files[CV_PATH].text).val = LatestDocument(rows, saved)

(* C7 as stated: whenever no PUT or generate request is in progress, cv.json
   holds the same document as the highest-id row. *)
C7_AgreeWhenQuiescent == (booted /\ inflight = EmptyBag) => FileAgreesWithLatest

(* the same, for requests that did not overlap *)
AgreeWithoutOverlap ==
    (booted /\ inflight = EmptyBag /\ ~raced) => FileAgreesWithLatest

-----------------------------------------------------------------------------
(* build_pdf(data, output_path), one section at a time *)

InitRender ==
    /\ rdata \in RenderDocs
    /\ rpc = "name"
    /\ story = <<>>
    /\ rerr = <<>>
    /\ out0 \in {NoOutput, OldOutput}
    /\ outFile = out0
    /\ DbIdle
    /\ BulletsIdle

NextSection(pc) ==
    IF pc = Sections[Len(Sections)] THEN "build"
    ELSE Sections[1 + CHOOSE i \in 1..Len(Sections) : Sections[i] = pc]

(* one section of lines 396-417: its flowables join the story, or its
   KeyError leaves build_pdf *)
RenderSection(pc) ==
    /\ rpc = pc
    /\ LET r == Then(Built(story), Section(pc, rdata))
       IN  IF r.err # <<>>
           THEN /\ rpc' = "raised"
                /\ rerr' = r.err
                /\ story' = story
           ELSE /\ rpc' = NextSection(pc)
                /\ rerr' = rerr
                /\ story' = r.items
    /\ UNCHANGED <<rdata, out0, outFile>>
    /\ UNCHANGED dbVars
    /\ UNCHANGED bulletVars

RenderName == RenderSection("name")
RenderContact == RenderSection("contact")
RenderSummary == RenderSection("summary")
RenderSkills == RenderSection("skills")
RenderExperience == RenderSection("experience")
RenderProjects == RenderSection("projects")
RenderEducation == RenderSection("education")

(* lines 419-440: the document template is opened on output_path and built *)
RenderBuild ==
    /\ rpc = "build"
    /\ rpc' = "done"
    /\ outFile' = WrittenPdf(story)
    /\ UNCHANGED <<rdata, story, rerr, out0>>
    /\ UNCHANGED dbVars
    /\ UNCHANGED bulletVars

NextRender ==
    \/ RenderName
    \/ RenderContact
    \/ RenderSummary
    \/ RenderSkills
    \/ RenderExperience
    \/ RenderProjects
    \/ RenderEducation
    \/ RenderBuild

SpecRender == InitRender /\ [][NextRender]_vars

-----------------------------------------------------------------------------
(* The bullets of a role description: build_experience, lines 306-314 *)

DescAlphabet == {"X", ".", " "}

Descriptions == UNION { [1..n -> DescAlphabet] : n \in 0..MaxDescLen }

InitBullets ==
    /\ desc \in Descriptions
    /\ bullets = <<>>
    /\ bpc = "start"
    /\ DbIdle
    /\ RenderIdle

BuildBullets ==
    /\ bpc = "start"
    /\ bullets' = DescriptionItems(desc)
    /\ bpc' = "done"
    /\ UNCHANGED desc
    /\ UNCHANGED dbVars
    /\ UNCHANGED renderVars

SpecBullets == InitBullets /\ [][BuildBullets]_vars

-----------------------------------------------------------------------------
(* Properties of the renderer *)

Entries(data, key) == GetOr(data, key, Arr(<<>>)).kids

(* one of the four kinds of field the renderer is said to require is absent *)
MissingName(data) == ~Has(data, kContact) \/ ~Has(Get(data, kContact), kName)

MissingInExperience(data) ==
    \E i \in 1..Len(Entries(data, kExperience)) :
        LET exp == Entries(data, kExperience)[i]
        IN  \/ ~Has(exp, kCompany)
            \/ \E j \in 1..Len(Entries(exp, kRoles)) : ~Has(Entries(exp, kRoles)[j], kTitle)

MissingInEducation(data) ==
    \E i \in 1..Len(Entries(data, kEducation)) :
        ~Has(Entries(data, kEducation)[i], kInstitution)

MissingRequired(data) ==
    MissingName(data) \/ MissingInExperience(data) \/ MissingInEducation(data)

MissingProjectName(data) ==
    \E i \in 1..Len(Entries(data, kProjects)) : ~Has(Entries(data, kProjects)[i], kName)

(* the positions build_pdf can be at before it leaves the first section that
   reads a missing field *)
ReachableBeforeFailure(data) ==
    LET last == IF MissingName(data) THEN 1
                ELSE IF MissingInExperience(data) THEN 5
                ELSE 7
    IN  {Sections[i] : i \in 1..last} \cup {"raised"}

(* C8: when contact.name, an experience entry's company, a role's title or an
   education entry's institution is absent, build_pdf does not get past the
   section that reads it: it raises a KeyError, never reaches the step that
   writes output_path, and the file there stays as it was (absent, or with
   its old content), however many sections were built before. *)
C8_FailsFastNoOutput ==
    MissingRequired(rdata) =>
        /\ rpc \in ReachableBeforeFailure(rdata)
        /\ outFile = out0
        /\ (rpc = "raised" => rerr # <<>>)

(* C8 witness: the institution is the missing field, so every earlier section
   has been built, and the old output file is untouched after the raise *)
C8_Witness ==
    /\ rpc = "raised"
    /\ rerr = kInstitution
    /\ Len(story) > 12
    /\ out0 = OldOutput
    /\ outFile = OldOutput

(* C9 as stated: a document with contact.name and every company, title and
   institution present never makes build_pdf raise a missing-field error. *)
C9_OnlyFourRequired == ~MissingRequired(rdata) => rpc # "raised"

(* C9 amended: the required fields are contact.name, each experience entry's
   company, each role's title, each education entry's institution and each
   project's name; with those present build_pdf raises no missing-field error
   and runs to the end, whichever other fields are absent. *)
C9_FiveRequired ==
    (~MissingRequired(rdata) /\ ~MissingProjectName(rdata)) =>
        /\ rpc # "raised"
        /\ rerr = <<>>
        /\ (rpc = "done" => outFile = WrittenPdf(story))

(* C9 witness: a document holding nothing but contact.name is rendered *)
C9_Witness ==
    /\ rdata = O1(kContact, O1(kName, Str(<<"N">>)))
    /\ rpc = "done"
    /\ outFile.exists
    /\ outFile # out0

-----------------------------------------------------------------------------
(* Properties of the bullets *)

(* the sentence of a bullet paragraph, after its dot-and-spaces prefix *)
Sentence(b) == SubSeq(b.text, 4, Len(b.text))

Fragments(d) == Split(d, <<".", " ">>)

NonBlank(d) == {i \in 1..Len(Fragments(d)) : Strip(Fragments(d)[i]) # <<>>}

(* the k-th non-blank fragment, stripped *)
KthFragment(d, k) ==
    Strip(Fragments(d)[CHOOSE i \in NonBlank(d) :
                         Cardinality({j \in NonBlank(d) : j <= i}) = k])

OneBulletPerFragment ==
    /\ Len(bullets) = Cardinality(NonBlank(desc))
    /\ \A k \in 1..Len(bullets) :
         /\ bullets[k].f = "Paragraph"
         /\ SubSeq(bullets[k].text, 1, 3) = <<MIDDOT, NBSP, NBSP>>
         /\ Sentence(bullets[k]) # <<>>
         /\ \/ Sentence(bullets[k]) = KthFragment(desc, k)
            \/ /\ Sentence(bullets[k]) = Append(KthFragment(desc, k), ".")
               /\ ~EndsWith(KthFragment(desc, k), <<".">>)
    /\ (desc = <<>> => bullets = <<>>)
    /\ (desc = <<"X", ".", " ", "X", ".">>
          => <<Sentence(bullets[1]), Sentence(bullets[2])>> = <<<<"X", ".">>, <<"X", ".">>>>)

(* C10 as stated: one bullet per non-blank fragment of the description split
   on ". ", in order, none empty, and every bullet ends in a single period. *)
C10_SinglePeriod ==
    bpc = "done" =>
        /\ OneBulletPerFragment
        /\ \A k \in 1..Len(bullets) :
             /\ EndsWith(Sentence(bullets[k]), <<".">>)
             /\ ~EndsWith(Sentence(bullets[k]), <<".", ".">>)

(* C10 amended: one bullet per non-blank fragment of the description split on
   ". ", in order, none empty; every bullet ends in a period, which is
   appended only to a fragment that does not already end in one, so a bullet
   ends in more than one period only when its fragment already did. *)
C10_PeriodNotDoubled ==
    bpc = "done" =>
        /\ OneBulletPerFragment
        /\ \A k \in 1..Len(bullets) :
             /\ EndsWith(Sentence(bullets[k]), <<".">>)
             /\ EndsWith(Sentence(bullets[k]), <<".", ".">>)
                  => EndsWith(KthFragment(desc, k), <<".", ".">>)

(* C10 witness: "X. X." has been split into its two bullets *)
C10_Witness ==
    /\ bpc = "done"
    /\ desc = <<"X", ".", " ", "X", ".">>
    /\ Len(bullets) = 2

====
